---- MODULE Spec2Model ----
(***************************************************************************)
(* A model of the cascadia CSS selector engine (selector.go): the query    *)
(* API over a document tree, the matching of simple, compound and combined *)
(* selectors, attribute matching, specificity and the Parse entry points.  *)
(*                                                                         *)
(* Strings whose bytes the code inspects or the parser produces (attribute *)
(* values, selector values, tag and pseudo-element names, selector text)   *)
(* are sequences of byte codes; attribute keys, which the model only       *)
(* compares, are TLA+ strings.                                             *)
(***************************************************************************)
EXTENDS Integers, Sequences, FiniteSets, TLC

VARIABLES
    doc,     \* the document tree handed to the engine (html.Node links and fields)
    query,   \* the arguments of the operation under study
    result   \* what the operations returned so far

vars == <<doc, query, result>>

(***************************************************************************)
(* The document tree: html.Node as the engine reads it.                    *)
(***************************************************************************)

\* The nil *html.Node; nodes are 1..doc.N.
nil == 0

Nodes(d) == 1..d.N

\* Parent maps of the ordered trees on nodes 1..N rooted at 1; the children
\* of a node are ordered by their identifiers, which need not be in
\* document order.
ParentMaps(N) ==
    {pa \in [1..N -> 0..(N - 1)] :
        pa[1] = nil /\ \A i \in 2..N : pa[i] >= 1 /\ pa[i] < i}

SetMin(S) == CHOOSE x \in S : \A y \in S : x <= y
SetMax(S) == CHOOSE x \in S : \A y \in S : x >= y

\* The tree with parent map pa, written with the link fields of html.Node.
\* label[i] is a record [Type, Data, DataAtom, Attr].
MkDoc(N, pa, label) ==
    LET kids(p) == {c \in 1..N : pa[c] = p}
        after(c) == {x \in 2..N : pa[x] = pa[c] /\ x > c}
        before(c) == {x \in 2..N : pa[x] = pa[c] /\ x < c}
    IN [N           |-> N,
        Parent      |-> pa,
        FirstChild  |-> [p \in 1..N |-> IF kids(p) = {} THEN nil ELSE SetMin(kids(p))],
        NextSibling |-> [c \in 1..N |-> IF c = 1 \/ after(c) = {} THEN nil ELSE SetMin(after(c))],
        PrevSibling |-> [c \in 1..N |-> IF c = 1 \/ before(c) = {} THEN nil ELSE SetMax(before(c))],
        Type        |-> [i \in 1..N |-> label[i].Type],
        Data        |-> [i \in 1..N |-> label[i].Data],
        DataAtom    |-> [i \in 1..N |-> label[i].DataAtom],
        Attr        |-> [i \in 1..N |-> label[i].Attr]]

\* A document holding no node the engine looks at.
NoDoc == [N |-> 0]

(***************************************************************************)
(* Query API: Selector.MatchAll, QueryAll, Selector.MatchFirst, Query.     *)
(* A Selector is a func from html.Node to bool, a Matcher any Match method: *)
(* both are modelled by the set s of nodes on which they answer true.      *)
(***************************************************************************)

RECURSIVE matchAllInto(_, _, _, _)
RECURSIVE matchAllChildren(_, _, _, _)

\* the loop "for child := n.FirstChild; child != nil; child = child.NextSibling"
matchAllChildren(d, s, child, storage) ==
    IF child = nil THEN storage
    ELSE matchAllChildren(d, s, d.NextSibling[child], matchAllInto(d, s, child, storage))

matchAllInto(d, s, n, storage) ==
    LET st1 == IF n \in s THEN Append(storage, n) ELSE storage
    IN matchAllChildren(d, s, d.FirstChild[n], st1)

RECURSIVE MatchAllPostOrder(_, _, _)
\* A traversal that appends a node after its descendants.
MatchAllPostOrder(d, s, n) ==
    LET RECURSIVE loop(_, _)
        loop(child, storage) ==
            IF child = nil THEN storage
            ELSE loop(d.NextSibling[child], storage \o MatchAllPostOrder(d, s, child))
    IN loop(d.FirstChild[n], <<>>) \o (IF n \in s THEN <<n>> ELSE <<>>)

MatchAll(d, s, n) == matchAllInto(d, s, n, <<>>)

RECURSIVE queryInto(_, _, _, _)
RECURSIVE queryChildren(_, _, _, _)

queryChildren(d, m, child, storage) ==
    IF child = nil THEN storage
    ELSE LET st1 == IF child \in m THEN Append(storage, child) ELSE storage
         IN queryChildren(d, m, d.NextSibling[child], queryInto(d, child, m, st1))

queryInto(d, n, m, storage) == queryChildren(d, m, d.FirstChild[n], storage)

\* A query that looks at the children of n only.
QueryAllShallow(d, n, m) ==
    LET RECURSIVE loop(_, _)
        loop(child, storage) ==
            IF child = nil THEN storage
            ELSE loop(d.NextSibling[child],
                      IF child \in m THEN Append(storage, child) ELSE storage)
    IN loop(d.FirstChild[n], <<>>)

QueryAll(d, n, m) == queryInto(d, n, m, <<>>)

RECURSIVE MatchFirst(_, _, _)
RECURSIVE matchFirstChildren(_, _, _)

matchFirstChildren(d, s, c) ==
    IF c = nil THEN nil
    ELSE LET m == MatchFirst(d, s, c)
         IN IF m # nil THEN m ELSE matchFirstChildren(d, s, d.NextSibling[c])

MatchFirst(d, s, n) ==
    IF n \in s THEN n ELSE matchFirstChildren(d, s, d.FirstChild[n])

RECURSIVE Query(_, _, _)
RECURSIVE queryFirstChildren(_, _, _)

queryFirstChildren(d, m, c) ==
    IF c = nil THEN nil
    ELSE IF c \in m THEN c
    ELSE LET matched == Query(d, c, m)
         IN IF matched # nil THEN matched ELSE queryFirstChildren(d, m, d.NextSibling[c])

Query(d, n, m) == queryFirstChildren(d, m, d.FirstChild[n])

\* A first-match search that stops at the first child matching, before
\* looking into the subtrees of earlier children.
MatchFirstBreadth(d, s, n) ==
    LET RECURSIVE direct(_)
        direct(c) == IF c = nil THEN nil
                     ELSE IF c \in s THEN c ELSE direct(d.NextSibling[c])
    IN IF n \in s THEN n
       ELSE IF direct(d.FirstChild[n]) # nil THEN direct(d.FirstChild[n])
       ELSE matchFirstChildren(d, s, d.FirstChild[n])

\* Selector.MatchFirst as the callers reach it.
SelectorMatchFirst(d, s, n) == MatchFirst(d, s, n)

(***************************************************************************)
(* Specification SpecQuery: one document, one predicate, one start node;   *)
(* the four query functions are called on them.                            *)
(***************************************************************************)

\* Largest document of SpecQuery, in nodes.
MaxNodes == 4

PlainLabel == [Type |-> "ElementNode", Data |-> <<120>>, DataAtom |-> <<>>, Attr |-> <<>>]


NotRun == [done |-> FALSE, nodes |-> <<>>, node |-> nil]

InitQuery ==
    /\ \E N \in 1..MaxNodes : \E pa \in ParentMaps(N) :
          doc = MkDoc(N, pa, [i \in 1..N |-> PlainLabel])
    /\ \E s \in SUBSET Nodes(doc), n \in Nodes(doc) : query = [s |-> s, n |-> n]
    /\ result = [MatchAll |-> NotRun, QueryAll |-> NotRun, MatchFirst |-> NotRun, Query |-> NotRun]

DoMatchAll ==
    /\ ~result.MatchAll.done
    /\ result' = [result EXCEPT !.MatchAll =
                    [done |-> TRUE, nodes |-> MatchAll(doc, query.s, query.n), node |-> nil]]
    /\ UNCHANGED <<doc, query>>

DoQueryAll ==
    /\ ~result.QueryAll.done
    /\ result' = [result EXCEPT !.QueryAll =
                    [done |-> TRUE, nodes |-> QueryAll(doc, query.n, query.s), node |-> nil]]
    /\ UNCHANGED <<doc, query>>

DoMatchFirst ==
    /\ ~result.MatchFirst.done
    /\ result' = [result EXCEPT !.MatchFirst =
                    [done |-> TRUE, nodes |-> <<>>, node |-> SelectorMatchFirst(doc, query.s, query.n)]]
    /\ UNCHANGED <<doc, query>>

DoQuery ==
    /\ ~result.Query.done
    /\ result' = [result EXCEPT !.Query =
                    [done |-> TRUE, nodes |-> <<>>, node |-> Query(doc, query.n, query.s)]]
    /\ UNCHANGED <<doc, query>>

NextQuery == DoMatchAll \/ DoQueryAll \/ DoMatchFirst \/ DoQuery

SpecQuery == InitQuery /\ [][NextQuery]_vars

(***************************************************************************)
(* Byte strings and the ASCII set of matchInclude.                         *)
(***************************************************************************)

\* s[i:] and s[:i] of Go, i counted from 0
SliceFrom(s, i) == SubSeq(s, i + 1, Len(s))
SliceTo(s, i) == SubSeq(s, 1, i)

Pow2(k) == 2 ^ k

\* bit b of the 32-bit word w
BitSet(w, b) == (w \div Pow2(b)) % 2 = 1

RECURSIVE makeASCIISetFrom(_, _, _)
\* the loop of makeASCIISet: as[c>>5] |= 1 << uint(c&31)
makeASCIISetFrom(chars, i, as) ==
    IF i > Len(chars) THEN as
    ELSE LET c == chars[i]
             w == c \div 32
             b == c % 32
         IN makeASCIISetFrom(chars, i + 1,
                [as EXCEPT ![w] = IF BitSet(as[w], b) THEN as[w] ELSE as[w] + Pow2(b)])

makeASCIISet(chars) == makeASCIISetFrom(chars, 1, [w \in 0..7 |-> 0])

\* (as *asciiSet) contains
contains(as, c) == BitSet(as[c \div 32], c % 32)

RECURSIVE indexFrom(_, _, _)
indexFrom(as, s, i) ==
    IF i >= Len(s) THEN -1
    ELSE IF contains(as, s[i + 1]) THEN i ELSE indexFrom(as, s, i + 1)

\* (as *asciiSet) index: the position (from 0) of the first byte of s in the set, or -1
index(as, s) == indexFrom(as, s, 0)

\* " \t\r\n\f"
spaceAsciiSet == makeASCIISet(<<32, 9, 13, 10, 12>>)

RECURSIVE matchIncludeLoop(_, _)
matchIncludeLoop(val, s) ==
    IF s = <<>> THEN FALSE
    ELSE LET i == index(spaceAsciiSet, s)
         IN IF i = -1 THEN s = val
            ELSE IF SliceTo(s, i) = val THEN TRUE
            ELSE matchIncludeLoop(val, SliceFrom(s, i + 1))

\* A matchInclude that splits on the space character only.
matchIncludeSpaceOnly(val, s) ==
    LET RECURSIVE loop(_)
        loop(t) ==
            IF t = <<>> THEN FALSE
            ELSE LET i == index(makeASCIISet(<<32>>), t)
                 IN IF i = -1 THEN t = val
                    ELSE IF SliceTo(t, i) = val THEN TRUE
                    ELSE loop(SliceFrom(t, i + 1))
    IN loop(s)

\* returns true if s is a whitespace-separated list that includes val
matchInclude(val, s) == matchIncludeLoop(val, s)

HasPrefix(s, prefix) == Len(s) >= Len(prefix) /\ SliceTo(s, Len(prefix)) = prefix
HasSuffix(s, suffix) == Len(s) >= Len(suffix) /\ SliceFrom(s, Len(s) - Len(suffix)) = suffix
Contains(s, substr) == \E i \in 0..(Len(s) - Len(substr)) : SubSeq(s, i + 1, i + Len(substr)) = substr

\* strings.TrimSpace(s) == "" for a string of ASCII bytes: every byte is one
\* of '\t', '\n', '\v', '\f', '\r', ' '
IsBlank(s) == \A i \in 1..Len(s) : s[i] \in {9, 10, 11, 12, 13, 32}

(***************************************************************************)
(* Selectors.  A Sel is a record tagged with the Go type that holds it.    *)
(***************************************************************************)

\* atom 0: the tag name is not in the atom table
NoAtom == <<>>

\* the tag names "div" and "p"
TagDiv == <<100, 105, 118>>
TagP == <<112>>

\* the tag names of the model that atom.Lookup knows; an atom is written as its name
AtomTable == {TagDiv, TagP}

\* toLowerASCII
toLowerASCII(str) == [i \in 1..Len(str) |-> IF str[i] >= 65 /\ str[i] <= 90 THEN str[i] + 32 ELSE str[i]]

newTagSelector(tag0) ==
    LET tag == toLowerASCII(tag0)
    IN IF tag \notin AtomTable THEN [kind |-> "tagSelector", tagS |-> tag, tag |-> NoAtom]
       ELSE [kind |-> "tagSelector", tagS |-> <<>>, tag |-> tag]

classSelector(class) == [kind |-> "classSelector", class |-> class]
idSelector(id) == [kind |-> "idSelector", id |-> id]
\* regexp is the literal text of a pattern without metacharacters
attrSelector(key, val, operation, regexp) ==
    [kind |-> "attrSelector", key |-> key, val |-> val, operation |-> operation, regexp |-> regexp]
neverMatchSelector(value) == [kind |-> "neverMatchSelector", value |-> value]
compoundSelector(selectors, pseudoElement) ==
    [kind |-> "compoundSelector", selectors |-> selectors, pseudoElement |-> pseudoElement]
combinedSelector(first, combinator, second) ==
    [kind |-> "combinedSelector", first |-> first, combinator |-> combinator, second |-> second]

\* a nil Sel
nilSel == [kind |-> "nil"]

\* the combinator bytes ' ', '>', '+', '~'
Combinators == {32, 62, 43, 126}

tagSelectorMatch(d, t, n) ==
    d.Type[n] = "ElementNode"
        /\ ((d.DataAtom[n] # NoAtom /\ d.DataAtom[n] = t.tag) \/ d.Data[n] = t.tagS)

\* The closures handed to matchAttribute, as records [fn, val]; call(f, s) is f(s).
call(f, s) ==
    CASE f.fn = "any"       -> TRUE
      [] f.fn = "equal"     -> s = f.val
      [] f.fn = "include"   -> matchInclude(f.val, s)
      [] f.fn = "dash"      -> IF s = f.val THEN TRUE
                               ELSE IF Len(s) <= Len(f.val) THEN FALSE
                               ELSE SliceTo(s, Len(f.val)) = f.val /\ s[Len(f.val) + 1] = 45
      [] f.fn = "prefix"    -> IF IsBlank(s) THEN FALSE ELSE HasPrefix(s, f.val)
      [] f.fn = "suffix"    -> IF IsBlank(s) THEN FALSE ELSE HasSuffix(s, f.val)
      [] f.fn = "substring" -> IF IsBlank(s) THEN FALSE ELSE Contains(s, f.val)
      \* rx.MatchString(s) of an unanchored pattern of literal characters
      [] f.fn = "regex"     -> Contains(s, f.val)

closure(fn, val) == [fn |-> fn, val |-> val]

\* A lookup that stops at the first attribute named key.
matchAttributeFirst(d, n, key, f) ==
    \E i \in 1..Len(d.Attr[n]) :
        /\ d.Attr[n][i].Key = key
        /\ \A j \in 1..(i - 1) : d.Attr[n][j].Key # key
        /\ call(f, d.Attr[n][i].Val)

\* matches elements where the attribute named key satisfies the function f:
\* "for _, a := range n.Attr { if a.Key == key && f(a.Val) { return true } }"
matchAttribute(d, n, key, f) ==
    \E i \in 1..Len(d.Attr[n]) : d.Attr[n][i].Key = key /\ call(f, d.Attr[n][i].Val)

classSelectorMatch(d, t, n) == matchAttribute(d, n, "class", closure("include", t.class))

idSelectorMatch(d, t, n) == matchAttribute(d, n, "id", closure("equal", t.id))

\* An attributeNotEqualMatch without the test of the node type.
attributeNotEqualMatchAnyType(d, key, val, n) ==
    ~ \E i \in 1..Len(d.Attr[n]) : d.Attr[n][i].Key = key /\ d.Attr[n][i].Val = val

attributeNotEqualMatch(d, key, val, n) ==
    IF d.Type[n] # "ElementNode" THEN FALSE
    ELSE ~ \E i \in 1..Len(d.Attr[n]) : d.Attr[n][i].Key = key /\ d.Attr[n][i].Val = val

attributeDashMatch(d, key, val, n) == matchAttribute(d, n, key, closure("dash", val))

attributePrefixMatch(d, key, val, n) == matchAttribute(d, n, key, closure("prefix", val))

attributeSuffixMatch(d, key, val, n) == matchAttribute(d, n, key, closure("suffix", val))

attributeSubstringMatch(d, key, val, n) == matchAttribute(d, n, key, closure("substring", val))

attributeRegexMatch(d, key, rx, n) == matchAttribute(d, n, key, closure("regex", rx))

attrSelectorMatch(d, t, n) ==
    CASE t.operation = ""   -> matchAttribute(d, n, t.key, closure("any", <<>>))
      [] t.operation = "="  -> matchAttribute(d, n, t.key, closure("equal", t.val))
      [] t.operation = "!=" -> attributeNotEqualMatch(d, t.key, t.val, n)
      [] t.operation = "~=" -> matchAttribute(d, n, t.key, closure("include", t.val))
      [] t.operation = "|=" -> attributeDashMatch(d, t.key, t.val, n)
      [] t.operation = "^=" -> attributePrefixMatch(d, t.key, t.val, n)
      [] t.operation = "$=" -> attributeSuffixMatch(d, t.key, t.val, n)
      [] t.operation = "*=" -> attributeSubstringMatch(d, t.key, t.val, n)
      [] t.operation = "#=" -> attributeRegexMatch(d, t.key, t.regexp, n)
      [] OTHER -> "panic: unsuported operation"

RECURSIVE Match(_, _, _)

RECURSIVE compoundMatchFrom(_, _, _, _)
\* the loop of compoundSelector.Match over t.selectors
compoundMatchFrom(d, t, i, n) ==
    IF i > Len(t.selectors) THEN TRUE
    ELSE IF ~Match(d, t.selectors[i], n) THEN FALSE
    ELSE compoundMatchFrom(d, t, i + 1, n)

compoundSelectorMatch(d, t, n) ==
    IF Len(t.selectors) = 0 THEN d.Type[n] = "ElementNode"
    ELSE compoundMatchFrom(d, t, 1, n)

RECURSIVE descendantWalk(_, _, _)
\* "for p := n.Parent; p != nil; p = p.Parent"
descendantWalk(d, a, p) ==
    IF p = nil THEN FALSE
    ELSE IF Match(d, a, p) THEN TRUE
    ELSE descendantWalk(d, a, d.Parent[p])

\* matches an element if it matches dd and has an ancestor that matches a
descendantMatch(d, a, dd, n) ==
    IF ~Match(d, dd, n) THEN FALSE ELSE descendantWalk(d, a, d.Parent[n])

\* matches an element if it matches dd and its parent matches a
childMatch(d, a, dd, n) ==
    Match(d, dd, n) /\ d.Parent[n] # nil /\ Match(d, a, d.Parent[n])

RECURSIVE adjacentWalk(_, _, _)
\* "for n = n.PrevSibling; n != nil; n = n.PrevSibling", skipping text and comments
adjacentWalk(d, s1, n) ==
    IF n = nil THEN FALSE
    ELSE IF d.Type[n] = "TextNode" \/ d.Type[n] = "CommentNode"
         THEN adjacentWalk(d, s1, d.PrevSibling[n])
    ELSE Match(d, s1, n)

RECURSIVE siblingWalk(_, _, _)
\* "for c := n.PrevSibling; c != nil; c = c.PrevSibling"
siblingWalk(d, s1, c) ==
    IF c = nil THEN FALSE
    ELSE IF Match(d, s1, c) THEN TRUE
    ELSE siblingWalk(d, s1, d.PrevSibling[c])

\* A siblingMatch whose adjacent case skips text nodes but not comments.
siblingMatchTextOnly(d, s1, s2, adjacent, n) ==
    LET RECURSIVE walk(_)
        walk(x) == IF x = nil THEN FALSE
                   ELSE IF d.Type[x] = "TextNode" THEN walk(d.PrevSibling[x])
                   ELSE Match(d, s1, x)
    IN IF ~Match(d, s2, n) THEN FALSE
       ELSE IF adjacent THEN walk(d.PrevSibling[n])
       ELSE siblingWalk(d, s1, d.PrevSibling[n])

\* matches an element if it matches s2 and is preceded by an element that
\* matches s1; if adjacent, the sibling must be immediately before it
siblingMatch(d, s1, s2, adjacent, n) ==
    IF ~Match(d, s2, n) THEN FALSE
    ELSE IF adjacent THEN adjacentWalk(d, s1, d.PrevSibling[n])
    ELSE siblingWalk(d, s1, d.PrevSibling[n])

combinedSelectorMatch(d, t, n) ==
    IF t.first = nilSel THEN FALSE
    ELSE CASE t.combinator = 0   -> Match(d, t.first, n)
           [] t.combinator = 32  -> descendantMatch(d, t.first, t.second, n)
           [] t.combinator = 62  -> childMatch(d, t.first, t.second, n)
           [] t.combinator = 43  -> siblingMatch(d, t.first, t.second, TRUE, n)
           [] t.combinator = 126 -> siblingMatch(d, t.first, t.second, FALSE, n)
           [] OTHER -> "panic: unknown combinator"

\* sel.Match(n), dispatched on the dynamic type of sel
Match(d, sel, n) ==
    CASE sel.kind = "tagSelector"        -> tagSelectorMatch(d, sel, n)
      [] sel.kind = "classSelector"      -> classSelectorMatch(d, sel, n)
      [] sel.kind = "idSelector"         -> idSelectorMatch(d, sel, n)
      [] sel.kind = "attrSelector"       -> attrSelectorMatch(d, sel, n)
      [] sel.kind = "neverMatchSelector" -> FALSE
      [] sel.kind = "compoundSelector"   -> compoundSelectorMatch(d, sel, n)
      [] sel.kind = "combinedSelector"   -> combinedSelectorMatch(d, sel, n)

\* Selector(sel.Match): the nodes of d on which sel.Match answers true
SelectorOf(d, sel) == {n \in Nodes(d) : Match(d, sel, n)}

(***************************************************************************)
(* Reference notions of the tree, stated over the link fields.             *)
(***************************************************************************)

RECURSIVE Ancestors(_, _)
\* the proper ancestors of n
Ancestors(d, n) ==
    IF d.Parent[n] = nil THEN {} ELSE {d.Parent[n]} \cup Ancestors(d, d.Parent[n])

\* the nodes of the subtree of n, n included
Subtree(d, n) == {x \in Nodes(d) : x = n \/ n \in Ancestors(d, x)}

RECURSIVE PrecedingSiblings(_, _)
PrecedingSiblings(d, n) ==
    IF d.PrevSibling[n] = nil THEN {}
    ELSE {d.PrevSibling[n]} \cup PrecedingSiblings(d, d.PrevSibling[n])

\* a comes before b in document order: a is an ancestor of b, or the
\* branches that lead to a and to b part at two siblings, a's the earlier.
DocBefore(d, a, b) ==
    \/ a \in Ancestors(d, b)
    \/ \E x \in Nodes(d), y \in Nodes(d) :
          /\ x \in {a} \cup Ancestors(d, a)
          /\ y \in {b} \cup Ancestors(d, b)
          /\ x \in PrecedingSiblings(d, y)

Range(sq) == {sq[i] : i \in 1..Len(sq)}

\* sq lists exactly the nodes of S, each once, in document order
IsDocOrderListing(d, sq, S) ==
    /\ Range(sq) = S
    /\ \A i \in 1..Len(sq), j \in 1..Len(sq) : i < j => DocBefore(d, sq[i], sq[j])

\* C1: MatchAll(n) lists exactly the nodes of the subtree of n (n included)
\* on which s is true, each once, in pre-order document order.
C1_MatchAllPreOrder ==
    result.MatchAll.done =>
        IsDocOrderListing(doc, result.MatchAll.nodes, Subtree(doc, query.n) \cap query.s)

\* A MatchAll over a subtree with at least three matching nodes, one of them
\* below an earlier sibling of another match whose identifier is smaller.
C1_Witness ==
    /\ result.MatchAll.done
    /\ Len(result.MatchAll.nodes) >= 3
    /\ \E i \in 1..Len(result.MatchAll.nodes), j \in 1..Len(result.MatchAll.nodes) :
          i < j /\ result.MatchAll.nodes[i] > result.MatchAll.nodes[j]
    /\ query.n \in query.s

\* sq without the occurrences of n
Without(sq, n) == SelectSeq(sq, LAMBDA x : x # n)

\* C2: QueryAll(n, m) is MatchAll(n) of the same predicate with the root n
\* removed: every matching proper descendant of n, in the same document
\* order, and never n itself.
C2_QueryAllIsMatchAllWithoutRoot ==
    (result.QueryAll.done /\ result.MatchAll.done) =>
        /\ result.QueryAll.nodes = Without(result.MatchAll.nodes, query.n)
        /\ Range(result.QueryAll.nodes) = (Subtree(doc, query.n) \ {query.n}) \cap query.s
        /\ query.n \notin Range(result.QueryAll.nodes)

\* Both calls made from a start node that matches and has a matching
\* grandchild and a matching child.
C2_Witness ==
    /\ result.QueryAll.done
    /\ result.MatchAll.done
    /\ query.n \in query.s
    /\ Len(result.QueryAll.nodes) >= 2
    /\ \E i \in 1..Len(result.QueryAll.nodes) :
          doc.Parent[result.QueryAll.nodes[i]] # query.n

FirstOrNil(sq) == IF sq = <<>> THEN nil ELSE Head(sq)

\* C3: MatchFirst(n) is the first element of MatchAll(n) and Query(n, m) the
\* first element of QueryAll(n, m); each is nil exactly when that list is
\* empty, and the answer is always a node of the document or nil.
C3_FirstMatchAgreesWithAllMatch ==
    /\ (result.MatchFirst.done /\ result.MatchAll.done) =>
          /\ result.MatchFirst.node = FirstOrNil(result.MatchAll.nodes)
          /\ (result.MatchFirst.node = nil) <=> (result.MatchAll.nodes = <<>>)
    /\ (result.Query.done /\ result.QueryAll.done) =>
          /\ result.Query.node = FirstOrNil(result.QueryAll.nodes)
          /\ (result.Query.node = nil) <=> (result.QueryAll.nodes = <<>>)
    /\ result.MatchFirst.node \in Nodes(doc) \cup {nil}
    /\ result.Query.node \in Nodes(doc) \cup {nil}

\* All four calls made; the first match is a grandchild of the start node
\* found below the first child while a later child of the start node matches.
C3_Witness ==
    /\ result.MatchFirst.done /\ result.MatchAll.done
    /\ result.Query.done /\ result.QueryAll.done
    /\ result.MatchFirst.node # nil
    /\ result.MatchFirst.node # query.n
    /\ doc.Parent[result.MatchFirst.node] # query.n
    /\ result.Query.node = result.MatchFirst.node
    /\ \E c \in query.s : doc.Parent[c] = query.n

(***************************************************************************)
(* Specification SpecCombinator: a labelled document; a combined selector  *)
(* is matched against every node of it, as TestValidSelectors does with    *)
(* Selector(sel.Match).MatchAll(doc).                                      *)
(***************************************************************************)

\* Largest document of SpecCombinator, in nodes.
MaxCombNodes == 4

Element(tag, classes) ==
    [Type |-> "ElementNode", Data |-> tag, DataAtom |-> IF tag \in AtomTable THEN tag ELSE NoAtom,
     Attr |-> IF classes = <<>> THEN <<>> ELSE <<[Key |-> "class", Val |-> classes]>>]

Inert(type) == [Type |-> type, Data |-> <<>>, DataAtom |-> NoAtom, Attr |-> <<>>]

\* <div>, <p class="a">, <p class="b">, <p class="c">
DivLabel == Element(TagDiv, <<>>)
PaLabel == Element(TagP, <<97>>)
PbLabel == Element(TagP, <<98>>)
PcLabel == Element(TagP, <<99>>)

CombLabels ==
    {DivLabel, PaLabel, PbLabel, PcLabel,
     Inert("TextNode"), Inert("CommentNode"), Inert("DoctypeNode")}

\* Text, comment and doctype nodes have no children.
WellFormedLabels(N, pa, label) ==
    \A i \in 2..N : label[pa[i]].Type = "ElementNode"

\* the compounds div, p, p.a, p.b, p.c as parseSimpleSelectorSequence builds them
SelDiv == compoundSelector(<<newTagSelector(TagDiv)>>, <<>>)
SelP == compoundSelector(<<newTagSelector(TagP)>>, <<>>)
SelPa == compoundSelector(<<newTagSelector(TagP), classSelector(<<97>>)>>, <<>>)
SelPb == compoundSelector(<<newTagSelector(TagP), classSelector(<<98>>)>>, <<>>)
SelPc == compoundSelector(<<newTagSelector(TagP), classSelector(<<99>>)>>, <<>>)

\* the (left, right) pairs matched: div p, p.a p.b, p.a p.c
CombPairs == {<<SelDiv, SelP>>, <<SelPa, SelPb>>, <<SelPa, SelPc>>}

InitCombinator ==
    /\ \E N \in 1..MaxCombNodes : \E pa \in ParentMaps(N) : \E label \in [1..N -> CombLabels] :
          /\ WellFormedLabels(N, pa, label)
          /\ doc = MkDoc(N, pa, label)
    /\ query = [sel |-> nilSel]
    /\ result = [done |-> FALSE, nodes |-> <<>>]

\* Selector(sel.Match).MatchAll(doc) for sel = left <combinator> right
DoMatchCombined ==
    \E pair \in CombPairs, c \in Combinators :
        LET sel == combinedSelector(pair[1], c, pair[2])
        IN /\ ~result.done
           /\ query' = [sel |-> sel]
           /\ result' = [done |-> TRUE, nodes |-> MatchAll(doc, SelectorOf(doc, sel), 1)]
           /\ UNCHANGED doc

\* the same for a combinedSelector without combinator: first only
DoMatchSingle ==
    \E pair \in CombPairs :
        LET sel == combinedSelector(pair[1], 0, nilSel)
        IN /\ ~result.done
           /\ query' = [sel |-> sel]
           /\ result' = [done |-> TRUE, nodes |-> MatchAll(doc, SelectorOf(doc, sel), 1)]
           /\ UNCHANGED doc

NextCombinator == DoMatchCombined \/ DoMatchSingle

SpecCombinator == InitCombinator /\ [][NextCombinator]_vars

\* The nearest preceding sibling of n that is neither text nor comment, or nil.
NearestSolidSibling(d, n) ==
    LET S == {x \in PrecedingSiblings(d, n) : d.Type[x] \notin {"TextNode", "CommentNode"}}
    IN IF S = {} THEN nil
       ELSE CHOOSE x \in S : \A y \in S \ {x} : y \in PrecedingSiblings(d, x)

\* The combinators' reference definitions.
CombinatorHolds(d, left, c, right, n) ==
    /\ Match(d, right, n)
    /\ CASE c = 32  -> \E a \in Ancestors(d, n) : Match(d, left, a)
         [] c = 62  -> d.Parent[n] # nil /\ Match(d, left, d.Parent[n])
         [] c = 43  -> NearestSolidSibling(d, n) # nil /\ Match(d, left, NearestSolidSibling(d, n))
         [] c = 126 -> \E x \in PrecedingSiblings(d, n) : Match(d, left, x)

\* the document <div><p class="a"><p class="b"><p class="c"></div>
IsExampleDoc(d) ==
    /\ d.N = 4
    /\ \A i \in 2..4 : d.Parent[i] = 1
    /\ d.Type = [i \in 1..4 |-> "ElementNode"]
    /\ d.Data = <<TagDiv, TagP, TagP, TagP>>
    /\ d.Attr[2] = PaLabel.Attr /\ d.Attr[3] = PbLabel.Attr /\ d.Attr[4] = PcLabel.Attr

\* C4: combinedSelector.Match(n) equals the reference definition of its
\* combinator (descendant, child, adjacent sibling, general sibling) on every
\* node; on the siblings p.a, p.b, p.c under one div, p.a + p.b matches only
\* p.b, p.a ~ p.c matches p.c, and div > p and div p match the three p nodes.
C4_CombinatorsMatchReference ==
    (result.done /\ query.sel.combinator # 0) =>
        /\ Range(result.nodes) =
              {n \in Nodes(doc) :
                  CombinatorHolds(doc, query.sel.first, query.sel.combinator, query.sel.second, n)}
        /\ IsExampleDoc(doc) =>
              /\ query.sel = combinedSelector(SelPa, 43, SelPb) => result.nodes = <<3>>
              /\ query.sel = combinedSelector(SelPa, 126, SelPc) => result.nodes = <<4>>
              /\ query.sel = combinedSelector(SelDiv, 62, SelP) => result.nodes = <<2, 3, 4>>
              /\ query.sel = combinedSelector(SelDiv, 32, SelP) => result.nodes = <<2, 3, 4>>

\* An adjacent-sibling match found across a comment: the matched node's
\* previous sibling is a comment and the node before it matches the left side.
C4_Witness ==
    /\ result.done
    /\ query.sel.combinator = 43
    /\ \E i \in 1..Len(result.nodes) :
          /\ doc.PrevSibling[result.nodes[i]] # nil
          /\ doc.Type[doc.PrevSibling[result.nodes[i]]] = "CommentNode"

(***************************************************************************)
(* Specification SpecAttr: one node with an attribute list; a class, id or *)
(* attribute selector is matched against it.                               *)
(***************************************************************************)

\* Longest attribute list of SpecAttr.
MaxAttrs == 2

NodeTypes == {"ElementNode", "TextNode", "CommentNode", "DoctypeNode"}

AttrKeys == {"class", "id"}

\* the attribute values "a", "b" and "a b"
AttrVals == {<<97>>, <<98>>, <<97, 32, 98>>}

\* the selector values "a" and "b"
SelVals == {<<97>>, <<98>>}

AttrEntries == {[Key |-> k, Val |-> v] : k \in AttrKeys, v \in AttrVals}

AttrOperations == {"", "=", "!=", "~=", "|=", "^=", "$=", "*=", "#="}

\* .val, #val and [key op val]; for the operation #= val is the pattern
AttrSels ==
    {classSelector(v) : v \in SelVals} \cup {idSelector(v) : v \in SelVals}
        \cup {attrSelector(k, IF op = "#=" THEN <<>> ELSE v, op, IF op = "#=" THEN v ELSE <<>>) :
                 k \in AttrKeys, v \in SelVals, op \in AttrOperations}

InitAttr ==
    /\ \E type \in NodeTypes, len \in 0..MaxAttrs : \E attr \in [1..len -> AttrEntries] :
          doc = MkDoc(1, <<nil>>, <<[Type |-> type, Data |-> <<>>, DataAtom |-> NoAtom, Attr |-> attr]>>)
    /\ query = [sel |-> nilSel]
    /\ result = [done |-> FALSE, matched |-> FALSE]

\* sel.Match(n) on the node
DoMatchAttr ==
    \E sel \in AttrSels :
        /\ ~result.done
        /\ query' = [sel |-> sel]
        /\ result' = [done |-> TRUE, matched |-> Match(doc, sel, 1)]
        /\ UNCHANGED doc

NextAttr == DoMatchAttr

SpecAttr == InitAttr /\ [][NextAttr]_vars

\* the values the attribute list gives to key, in any position
ValuesOf(attr, key) == {attr[i].Val : i \in {j \in 1..Len(attr) : attr[j].Key = key}}

\* the value of the first entry named key (the list has one)
FirstValue(attr, key) ==
    attr[SetMin({j \in 1..Len(attr) : attr[j].Key = key})].Val

IsNotEqualQuery == result.done /\ query.sel.kind = "attrSelector" /\ query.sel.operation = "!="

\* C5 as stated: [key!=val] matches exactly when the node has no attribute
\* named key or has it with a value other than val, whatever the node's kind.
C5_NotEqualAnyKind ==
    IsNotEqualQuery =>
        (result.matched <=>
            \/ ValuesOf(doc.Attr[1], query.sel.key) = {}
            \/ FirstValue(doc.Attr[1], query.sel.key) # query.sel.val)

\* C5 amended: [key!=val] matches exactly when the node is an element and no
\* entry of its attribute list has the key with the value val; a node of any
\* other kind is never matched.
C5_NotEqualOnElements ==
    IsNotEqualQuery =>
        (result.matched <=>
            /\ doc.Type[1] = "ElementNode"
            /\ query.sel.val \notin ValuesOf(doc.Attr[1], query.sel.key))

\* [key!=val] matched an element that has the attribute with another value.
C5_Witness ==
    /\ IsNotEqualQuery
    /\ result.matched
    /\ doc.Type[1] = "ElementNode"
    /\ ValuesOf(doc.Attr[1], query.sel.key) # {}

RECURSIVE FirstPerKey(_, _)
\* attr with, for every key, only its first entry kept
FirstPerKey(attr, seen) ==
    IF attr = <<>> THEN <<>>
    ELSE IF Head(attr).Key \in seen THEN FirstPerKey(Tail(attr), seen)
    ELSE <<Head(attr)>> \o FirstPerKey(Tail(attr), seen \cup {Head(attr).Key})

\* C9: the first entry with a key decides: Match answers as it does on the
\* node whose later entries with an already seen key are removed.
C9_FirstAttributeWins ==
    result.done =>
        result.matched =
            Match([doc EXCEPT !.Attr[1] = FirstPerKey(doc.Attr[1], {})], query.sel, 1)

(***************************************************************************)
(* Specification SpecInclude: matchInclude(val, s) on byte strings.        *)
(***************************************************************************)

\* Longest selector value and longest attribute value of SpecInclude.
MaxValLen == 1
MaxListLen == 3

\* 'a', 'b', the five CSS whitespace bytes, and the vertical tab
IncludeBytes == {97, 98, 32, 9, 13, 10, 12, 11}

InitInclude ==
    /\ doc = NoDoc
    /\ \E lv \in 0..MaxValLen, ls \in 0..MaxListLen :
          \E val \in [1..lv -> IncludeBytes], s \in [1..ls -> IncludeBytes] :
              query = [val |-> val, s |-> s]
    /\ result = [done |-> FALSE, included |-> FALSE]

DoMatchInclude ==
    /\ ~result.done
    /\ result' = [done |-> TRUE, included |-> matchInclude(query.val, query.s)]
    /\ UNCHANGED <<doc, query>>

NextInclude == DoMatchInclude

SpecInclude == InitInclude /\ [][NextInclude]_vars

IsCSSSpace(c) == c \in {32, 9, 13, 10, 12}

\* the tokens of s: its maximal runs of bytes that are not CSS whitespace
Tokens(s) ==
    {SubSeq(s, i, j) : <<i, j>> \in
        {ij \in (1..Len(s)) \X (1..Len(s)) :
            /\ ij[1] <= ij[2]
            /\ \A k \in ij[1]..ij[2] : ~IsCSSSpace(s[k])
            /\ (ij[1] = 1 \/ IsCSSSpace(s[ij[1] - 1]))
            /\ (ij[2] = Len(s) \/ IsCSSSpace(s[ij[2] + 1]))}}

\* C10: matchInclude(val, s) is true exactly when val is one of the tokens of
\* s, for every val, the empty one included.
C10_IncludeIsTokenMembership ==
    result.done => (result.included <=> query.val \in Tokens(query.s))

(***************************************************************************)
(* Parse, ParseWithPseudoElement, ParseGroup, ParseGroupWithPseudoElements.*)
(* The recursive-descent parser they call is described by what it hands    *)
(* back: an error, or a compiled selector with the final position p.i.     *)
(***************************************************************************)

\* a nil error
nilError == [error |-> "nil"]

\* &parser{s: sel, acceptPseudoElements: accept}
parser(sel, accept) == [s |-> sel, i |-> 0, acceptPseudoElements |-> accept]

\* What p.parseSelector() and p.parseSelectorGroup() can return: an error, or
\* the selector compiled from the bytes consumed, with p.i left anywhere in
\* 0..len(p.s).
parseOutcomes(p, what) ==
    {[compiled |-> nilSel, err |-> [error |-> "parse error", at |-> i], i |-> i] :
        i \in 0..Len(p.s)}
    \cup
    {[compiled |-> [kind |-> what, source |-> SliceTo(p.s, i),
                    acceptPseudoElements |-> p.acceptPseudoElements],
      err |-> nilError, i |-> i] : i \in 0..Len(p.s)}

\* fmt.Errorf("parsing %q: %d bytes left over", sel, len(sel)-p.i)
leftOverError(sel, i) == [error |-> "bytes left over", parsing |-> sel, count |-> Len(sel) - i]

\* the body the four functions share, after the inner parse returned inner
finishParse(sel, inner) ==
    IF inner.err # nilError THEN [sel |-> nilSel, err |-> inner.err]
    ELSE IF inner.i < Len(sel) THEN [sel |-> nilSel, err |-> leftOverError(sel, inner.i)]
    ELSE [sel |-> inner.compiled, err |-> nilError]

\* A Parse that returns what was compiled whatever is left of the input.
ParseIgnoringRest(sel, inner) ==
    IF inner.err # nilError THEN [sel |-> nilSel, err |-> inner.err]
    ELSE [sel |-> inner.compiled, err |-> nilError]

Parse(sel, inner) == finishParse(sel, inner)
ParseWithPseudoElement(sel, inner) == finishParse(sel, inner)
ParseGroup(sel, inner) == finishParse(sel, inner)
ParseGroupWithPseudoElements(sel, inner) == finishParse(sel, inner)

(***************************************************************************)
(* Specification SpecParse: one input text; one of the four functions is   *)
(* called on it.                                                           *)
(***************************************************************************)

\* Longest input of SpecParse, in bytes.
MaxInput == 3

\* 'a' and ')'
InputBytes == {97, 41}

InitParse ==
    /\ doc = NoDoc
    /\ \E len \in 0..MaxInput : \E sel \in [1..len -> InputBytes] :
          query = [sel |-> sel, fn |-> "", inner |-> [compiled |-> nilSel, err |-> nilError, i |-> 0]]
    /\ result = [done |-> FALSE, sel |-> nilSel, err |-> nilError]

DoParse ==
    /\ ~result.done
    /\ \E inner \in parseOutcomes(parser(query.sel, FALSE), "Sel") :
          /\ query' = [query EXCEPT !.fn = "Parse", !.inner = inner]
          /\ result' = [done |-> TRUE] @@ Parse(query.sel, inner)
    /\ UNCHANGED doc

DoParseWithPseudoElement ==
    /\ ~result.done
    /\ \E inner \in parseOutcomes(parser(query.sel, TRUE), "Sel") :
          /\ query' = [query EXCEPT !.fn = "ParseWithPseudoElement", !.inner = inner]
          /\ result' = [done |-> TRUE] @@ ParseWithPseudoElement(query.sel, inner)
    /\ UNCHANGED doc

DoParseGroup ==
    /\ ~result.done
    /\ \E inner \in parseOutcomes(parser(query.sel, FALSE), "SelectorGroup") :
          /\ query' = [query EXCEPT !.fn = "ParseGroup", !.inner = inner]
          /\ result' = [done |-> TRUE] @@ ParseGroup(query.sel, inner)
    /\ UNCHANGED doc

DoParseGroupWithPseudoElements ==
    /\ ~result.done
    /\ \E inner \in parseOutcomes(parser(query.sel, TRUE), "SelectorGroup") :
          /\ query' = [query EXCEPT !.fn = "ParseGroupWithPseudoElements", !.inner = inner]
          /\ result' = [done |-> TRUE] @@ ParseGroupWithPseudoElements(query.sel, inner)
    /\ UNCHANGED doc

NextParse ==
    DoParse \/ DoParseWithPseudoElement \/ DoParseGroup \/ DoParseGroupWithPseudoElements

SpecParse == InitParse /\ [][NextParse]_vars

\* C6: each of the four functions returns a selector only when the inner
\* parse succeeded with the final position at the end of the input; when it
\* succeeded short of the end at i, an error reporting len(input) - i left
\* over bytes and no selector; when it failed, its error and no selector.
C6_ParseConsumesWholeInput ==
    result.done =>
        /\ result.sel # nilSel =>
              /\ query.inner.err = nilError
              /\ query.inner.i = Len(query.sel)
              /\ result.sel = query.inner.compiled
              /\ result.err = nilError
        /\ (query.inner.err = nilError /\ query.inner.i < Len(query.sel)) =>
              /\ result.sel = nilSel
              /\ result.err.error = "bytes left over"
              /\ result.err.count = Len(query.sel) - query.inner.i
        /\ query.inner.err # nilError =>
              /\ result.sel = nilSel
              /\ result.err = query.inner.err
        /\ (result.sel = nilSel) <=> (result.err # nilError)

\* ParseGroupWithPseudoElements stopped two bytes before the end of its input.
C6_Witness ==
    /\ result.done
    /\ query.fn = "ParseGroupWithPseudoElements"
    /\ query.inner.err = nilError
    /\ query.inner.i >= 1
    /\ result.sel = nilSel
    /\ result.err.error = "bytes left over"
    /\ result.err.count = 2

(***************************************************************************)
(* Specificity.  A Specificity is a [3]int; Add sums component-wise.       *)
(***************************************************************************)

Add(s, other) == <<s[1] + other[1], s[2] + other[2], s[3] + other[3]>>

RECURSIVE Specificity(_)

RECURSIVE compoundSpecificityFrom(_, _, _)
\* the loop of compoundSelector.Specificity over s.selectors
compoundSpecificityFrom(s, i, out) ==
    IF i > Len(s.selectors) THEN out
    ELSE compoundSpecificityFrom(s, i + 1, Add(out, Specificity(s.selectors[i])))

\* A compound specificity that forgets the pseudo-element.
compoundSpecificityNoPseudo(s) == compoundSpecificityFrom(s, 1, <<0, 0, 0>>)

compoundSelectorSpecificity(s) ==
    LET out == compoundSpecificityFrom(s, 1, <<0, 0, 0>>)
    IN IF s.pseudoElement # <<>> THEN Add(out, <<0, 0, 1>>) ELSE out

combinedSelectorSpecificity(s) ==
    LET spec == Specificity(s.first)
    IN IF s.second # nilSel THEN Add(spec, Specificity(s.second)) ELSE spec

\* sel.Specificity(), dispatched on the dynamic type of sel
Specificity(sel) ==
    CASE sel.kind = "tagSelector"        -> <<0, 0, 1>>
      [] sel.kind = "classSelector"      -> <<0, 1, 0>>
      [] sel.kind = "idSelector"         -> <<1, 0, 0>>
      [] sel.kind = "attrSelector"       -> <<0, 1, 0>>
      [] sel.kind = "neverMatchSelector" -> <<0, 0, 0>>
      [] sel.kind = "compoundSelector"   -> compoundSelectorSpecificity(sel)
      [] sel.kind = "combinedSelector"   -> combinedSelectorSpecificity(sel)

(***************************************************************************)
(* Specification SpecSpecificity: a selector built from simple selectors   *)
(* through compounds and combinators; its Specificity() is computed.       *)
(***************************************************************************)

\* Most simple selectors in a selector, and most compounds in its chain.
MaxSimple == 2
MaxChain == 2

\* div, .a, #a, [id], and a never-match selector
SimpleSels ==
    {newTagSelector(TagDiv), classSelector(<<97>>), idSelector(<<97>>),
     attrSelector("id", <<>>, "", <<>>), neverMatchSelector("nth-child(x)")}

\* no pseudo-element, and "before"
PseudoElements == {<<>>, <<98, 101, 102, 111, 114, 101>>}

\* the simple selectors of leaves that place puts in compound j, in order
MembersOf(leaves, place, j) ==
    LET idx == SelectSeq([i \in 1..Len(leaves) |-> i], LAMBDA i : place[i] = j)
    IN [k \in 1..Len(idx) |-> leaves[idx[k]]]

RECURSIVE Chain(_, _, _)
\* compound 1 <comb 1> compound 2 ... compound m, nested to the left as the
\* selector parser builds it
Chain(compounds, combs, m) ==
    IF m = 1 THEN compounds[1]
    ELSE combinedSelector(Chain(compounds, combs, m - 1), combs[m - 1], compounds[m])

InitSpecificity ==
    /\ doc = NoDoc
    /\ \E k \in 0..MaxSimple, m \in 1..MaxChain :
          \E leaves \in [1..k -> SimpleSels], place \in [1..k -> 1..m],
             pe \in [1..m -> PseudoElements], combs \in [1..(m - 1) -> Combinators],
             bare \in BOOLEAN :
              /\ \A i \in 1..k, j \in 1..k : i < j => place[i] <= place[j]
              /\ bare => m = 1
              /\ LET compounds == [j \in 1..m |-> compoundSelector(MembersOf(leaves, place, j), pe[j])]
                 IN query = [sel |-> IF bare THEN combinedSelector(compounds[1], 0, nilSel)
                                     ELSE Chain(compounds, combs, m)]
    /\ result = [done |-> FALSE, specificity |-> <<0, 0, 0>>]

DoSpecificity ==
    /\ ~result.done
    /\ result' = [done |-> TRUE, specificity |-> Specificity(query.sel)]
    /\ UNCHANGED <<doc, query>>

NextSpecificity == DoSpecificity

SpecSpecificity == InitSpecificity /\ [][NextSpecificity]_vars

RECURSIVE CompoundsIn(_)
\* the compounds of a selector, left to right
CompoundsIn(sel) ==
    IF sel.kind = "compoundSelector" THEN <<sel>>
    ELSE IF sel.kind = "combinedSelector"
         THEN CompoundsIn(sel.first) \o (IF sel.second = nilSel THEN <<>> ELSE CompoundsIn(sel.second))
    ELSE <<>>

RECURSIVE Concat(_)
Concat(seqs) == IF seqs = <<>> THEN <<>> ELSE Head(seqs) \o Concat(Tail(seqs))

\* the simple selectors of a selector, left to right
SimplesIn(sel) == Concat([j \in 1..Len(CompoundsIn(sel)) |-> CompoundsIn(sel)[j].selectors])

\* how many entries of sq have their kind in kinds
CountKinds(sq, kinds) == Cardinality({i \in 1..Len(sq) : sq[i].kind \in kinds})

CountPseudo(sq) == Cardinality({i \in 1..Len(sq) : sq[i].pseudoElement # <<>>})

\* C7: the specificity of a selector is (number of id selectors, number of
\* class and attribute selectors, number of tag selectors plus number of
\* compounds with a pseudo-element), counted over the whole selector.
C7_SpecificityCounts ==
    result.done =>
        result.specificity =
            <<CountKinds(SimplesIn(query.sel), {"idSelector"}),
              CountKinds(SimplesIn(query.sel), {"classSelector", "attrSelector"}),
              CountKinds(SimplesIn(query.sel), {"tagSelector"}) + CountPseudo(CompoundsIn(query.sel))>>

\* The specificity of a chain of two compounds, the left one with a
\* pseudo-element and a never-match selector, the right one with a tag.
C7_Witness ==
    /\ result.done
    /\ query.sel.kind = "combinedSelector"
    /\ query.sel.second # nilSel
    /\ query.sel.first.pseudoElement # <<>>
    /\ \E i \in 1..Len(query.sel.first.selectors) :
          query.sel.first.selectors[i].kind = "neverMatchSelector"
    /\ \E i \in 1..Len(query.sel.second.selectors) :
          query.sel.second.selectors[i].kind = "tagSelector"
    /\ result.specificity = <<0, 0, 2>>

(***************************************************************************)
(* The parser and the serializer, after sections 4.1 and 4.5 of the design *)
(* document: group := selector (',' selector)*, a selector a chain of      *)
(* compounds joined by whitespace, '>', '+' or '~', a compound an optional *)
(* type selector or '*' followed by '.' ident, '#' ident and '::' ident.   *)
(* Attribute selectors, pseudo-classes and comments are left out.          *)
(* A position i counts the bytes consumed; s[i + 1] is the byte at p.i.    *)
(***************************************************************************)

parseError(msg) == [error |-> msg]

\* what a parsing function hands back: the error, p.i, and the value parsed
parsed(i, val) == [err |-> nilError, i |-> i, val |-> val]
failed(i, msg) == [err |-> parseError(msg), i |-> i, val |-> <<>>]

isWhitespace(c) == c \in {32, 9, 13, 10, 12}

RECURSIVE skipWhitespace(_, _)
skipWhitespace(s, i) ==
    IF i < Len(s) /\ isWhitespace(s[i + 1]) THEN skipWhitespace(s, i + 1) ELSE i

\* a-z, A-Z, '_' and the bytes above 127
nameStart(c) == (c >= 97 /\ c <= 122) \/ (c >= 65 /\ c <= 90) \/ c = 95 \/ c > 127

\* nameStart, '-' and 0-9
nameChar(c) == nameStart(c) \/ c = 45 \/ (c >= 48 /\ c <= 57)

hexDigit(c) == (c >= 48 /\ c <= 57) \/ (c >= 97 /\ c <= 102) \/ (c >= 65 /\ c <= 70)

hexValue(c) == IF c <= 57 THEN c - 48 ELSE IF c >= 97 THEN c - 87 ELSE c - 55

RECURSIVE hexRun(_, _, _, _)
\* the hexadecimal digits from position i, six at most: <<position after them, value>>
hexRun(s, i, n, v) ==
    IF n < 6 /\ i < Len(s) /\ hexDigit(s[i + 1])
    THEN hexRun(s, i + 1, n + 1, v * 16 + hexValue(s[i + 1]))
    ELSE <<i, v>>

\* the code point r of a hexadecimal escape, one whitespace after it consumed
hexEscape(s, r) ==
    parsed(IF r[1] < Len(s) /\ isWhitespace(s[r[1] + 1]) THEN r[1] + 1 ELSE r[1], <<r[2]>>)

\* '\' followed by a hexadecimal code point (and one whitespace), or by a
\* literal character; the code point is kept as one element
parseEscape(s, i) ==
    IF Len(s) < i + 2 \/ s[i + 1] # 92 THEN failed(i, "invalid escape sequence")
    ELSE IF s[i + 2] \in {13, 10, 12} THEN failed(i, "escaped line ending outside string")
    ELSE IF hexDigit(s[i + 2]) THEN hexEscape(s, hexRun(s, i + 1, 0, 0))
    ELSE parsed(i + 2, <<s[i + 2]>>)

RECURSIVE parseNameFrom(_, _, _)

\* parseName goes on after the escape e
nameAfterEscape(s, acc, e) ==
    IF e.err # nilError THEN e ELSE parseNameFrom(s, e.i, acc \o e.val)

parseNameFrom(s, i, acc) ==
    IF i < Len(s) /\ nameChar(s[i + 1]) THEN parseNameFrom(s, i + 1, Append(acc, s[i + 1]))
    ELSE IF i < Len(s) /\ s[i + 1] = 92 THEN nameAfterEscape(s, acc, parseEscape(s, i))
    ELSE IF acc = <<>> THEN failed(i, "expected name") ELSE parsed(i, acc)

\* a name: name characters and escapes, decoded
parseName(s, i) == parseNameFrom(s, i, <<>>)

RECURSIVE skipDashes(_, _)
skipDashes(s, i) == IF i < Len(s) /\ s[i + 1] = 45 THEN skipDashes(s, i + 1) ELSE i

\* the name r with the n dashes that came before it
withDashes(n, r) ==
    IF r.err # nilError THEN r ELSE parsed(r.i, [k \in 1..n |-> 45] \o r.val)

\* parseIdentifier once the dashes s[i+1..j] are skipped
identifierFrom(s, i, j) ==
    IF j >= Len(s) THEN failed(j, "expected identifier, found EOF instead")
    ELSE IF ~(nameStart(s[j + 1]) \/ s[j + 1] = 92) THEN failed(j, "expected identifier")
    ELSE withDashes(j - i, parseName(s, j))

\* an identifier: dashes, then a name that starts with a name-start character or an escape
parseIdentifier(s, i) == identifierFrom(s, i, skipDashes(s, i))

\* the selector a parsed identifier or name r stands for: "tag", "class", "id",
\* or the lower-cased name of a pseudo-element
selectorOfName(what, r) ==
    IF r.err # nilError THEN r
    ELSE parsed(r.i, CASE what = "tag"   -> newTagSelector(r.val)
                       [] what = "id"    -> idSelector(r.val)
                       [] what = "class" -> classSelector(r.val)
                       [] what = "pseudo-element" -> toLowerASCII(r.val))

parseTypeSelector(s, i) == selectorOfName("tag", parseIdentifier(s, i))

\* '#' name
parseIDSelector(s, i) == selectorOfName("id", parseName(s, i + 1))

\* '.' identifier
parseClassSelector(s, i) == selectorOfName("class", parseIdentifier(s, i + 1))

\* '::' identifier, a pseudo-element; the single-colon forms (pseudo-classes
\* and legacy pseudo-elements) are not modelled and are refused
parsePseudoElement(s, i) ==
    IF i + 1 < Len(s) /\ s[i + 2] = 58
    THEN selectorOfName("pseudo-element", parseIdentifier(s, i + 2))
    ELSE failed(i, "unknown pseudoclass")

RECURSIVE parseSimpleSelectors(_, _, _, _, _)

\* the loop goes on after the '#' or '.' selector r: none may follow a pseudo-element
afterSimple(s, accept, selectors, pseudoElement, r) ==
    IF r.err # nilError THEN r
    ELSE IF pseudoElement # <<>> THEN failed(r.i, "pseudo-element must be at the end of selector")
    ELSE parseSimpleSelectors(s, r.i, accept, Append(selectors, r.val), pseudoElement)

\* the loop goes on after the pseudo-element r: only one, and only when accepted
afterPseudoElement(s, accept, selectors, pseudoElement, r) ==
    IF r.err # nilError THEN r
    ELSE IF pseudoElement # <<>> THEN failed(r.i, "only one pseudo-element is accepted per selector")
    ELSE IF ~accept THEN failed(r.i, "pseudo-elements support is disabled")
    ELSE parseSimpleSelectors(s, r.i, accept, selectors, r.val)

\* the loop over '#', '.' and ':' of a compound
parseSimpleSelectors(s, i, accept, selectors, pseudoElement) ==
    IF i < Len(s) /\ s[i + 1] = 35
    THEN afterSimple(s, accept, selectors, pseudoElement, parseIDSelector(s, i))
    ELSE IF i < Len(s) /\ s[i + 1] = 46
    THEN afterSimple(s, accept, selectors, pseudoElement, parseClassSelector(s, i))
    ELSE IF i < Len(s) /\ s[i + 1] = 58
    THEN afterPseudoElement(s, accept, selectors, pseudoElement, parsePseudoElement(s, i))
    ELSE parsed(i, compoundSelector(selectors, pseudoElement))

\* the compound goes on after its type selector r
afterTypeSelector(s, accept, r) ==
    IF r.err # nilError THEN r ELSE parseSimpleSelectors(s, r.i, accept, <<r.val>>, <<>>)

\* compound := (type-selector | '*')? simple*
parseSimpleSelectorSequence(s, i, accept) ==
    IF i >= Len(s) THEN failed(i, "expected selector, found EOF instead")
    ELSE IF s[i + 1] = 42 THEN parseSimpleSelectors(s, i + 1, accept, <<>>, <<>>)
    ELSE IF s[i + 1] \in {35, 46, 58} THEN parseSimpleSelectors(s, i, accept, <<>>, <<>>)
    ELSE afterTypeSelector(s, accept, parseTypeSelector(s, i))

RECURSIVE combinatorAt(_, _, _, _, _)

\* the chain goes on after the compound r that follows combinator
afterCombinator(s, accept, first, combinator, r) ==
    IF r.err # nilError THEN r
    ELSE combinatorAt(s, skipWhitespace(s, r.i), r.i, accept, combinedSelector(first, combinator, r.val))

\* the loop of parseSelector at position j, whitespace skipped from position i:
\* an explicit combinator, the end of the selector, or the descendant
\* combinator that the skipped whitespace stands for
combinatorAt(s, j, i, accept, first) ==
    IF j >= Len(s) THEN parsed(j, first)
    ELSE IF s[j + 1] \in {43, 62, 126}
    THEN afterCombinator(s, accept, first, s[j + 1],
                         parseSimpleSelectorSequence(s, skipWhitespace(s, j + 1), accept))
    ELSE IF s[j + 1] \in {44, 41} \/ j = i THEN parsed(j, first)
    ELSE afterCombinator(s, accept, first, 32, parseSimpleSelectorSequence(s, j, accept))

\* the chain goes on after its first compound r
afterFirstCompound(s, accept, r) ==
    IF r.err # nilError THEN r ELSE combinatorAt(s, skipWhitespace(s, r.i), r.i, accept, r.val)

\* selector := compound ((ws | '>' | '+' | '~') compound)*
parseSelectorAt(s, i, accept) ==
    afterFirstCompound(s, accept, parseSimpleSelectorSequence(s, skipWhitespace(s, i), accept))

RECURSIVE afterSelector(_, _, _, _)
\* the group goes on after its member r: a ',' and one more selector, or the end
afterSelector(s, accept, group, r) ==
    IF r.err # nilError THEN r
    ELSE IF r.i < Len(s) /\ s[r.i + 1] = 44
    THEN afterSelector(s, accept, Append(group, r.val), parseSelectorAt(s, r.i + 1, accept))
    ELSE parsed(r.i, Append(group, r.val))

\* the outcome record the Parse functions read: compiled, err and p.i
outcome(r) == [compiled |-> IF r.err # nilError THEN nilSel ELSE r.val, err |-> r.err, i |-> r.i]

\* p.parseSelector()
parseSelector(p) == outcome(parseSelectorAt(p.s, p.i, p.acceptPseudoElements))

\* p.parseSelectorGroup(): group := selector (',' selector)*
parseSelectorGroup(p) ==
    outcome(afterSelector(p.s, p.acceptPseudoElements, <<>>,
                          parseSelectorAt(p.s, p.i, p.acceptPseudoElements)))

RECURSIVE String(_)

RECURSIVE joinStrings(_, _, _)
\* the String() of the selectors sels[i..], joined by sep
joinStrings(sels, i, sep) ==
    IF i > Len(sels) THEN <<>>
    ELSE IF i = Len(sels) THEN String(sels[i])
    ELSE String(sels[i]) \o sep \o joinStrings(sels, i + 1, sep)

\* A serializer that writes a combinator without the spaces around it and
\* nothing at all for the descendant combinator.
combinedStringTight(c) ==
    IF c.second = nilSel THEN String(c.first)
    ELSE String(c.first) \o (IF c.combinator = 32 THEN <<>> ELSE <<c.combinator>>) \o String(c.second)

\* first, then " <combinator> " and second
combinedString(c) ==
    IF c.second = nilSel THEN String(c.first)
    ELSE String(c.first) \o <<32, c.combinator, 32>> \o String(c.second)

\* "*" for the empty compound; else the members, then "::" and the pseudo-element
compoundString(c) ==
    IF Len(c.selectors) = 0 /\ c.pseudoElement = <<>> THEN <<42>>
    ELSE joinStrings(c.selectors, 1, <<>>)
            \o (IF c.pseudoElement # <<>> THEN <<58, 58>> \o c.pseudoElement ELSE <<>>)

\* sel.String(): identifiers are written as they are, without escapes
String(sel) ==
    CASE sel.kind = "tagSelector"      -> IF sel.tag # NoAtom THEN sel.tag ELSE sel.tagS
      [] sel.kind = "classSelector"    -> <<46>> \o sel.class
      [] sel.kind = "idSelector"       -> <<35>> \o sel.id
      [] sel.kind = "compoundSelector" -> compoundString(sel)
      [] sel.kind = "combinedSelector" -> combinedString(sel)

\* SelectorGroup.String(): the members joined by ", "
GroupString(group) == joinStrings(group, 1, <<44, 32>>)

(***************************************************************************)
(* Specification SpecRoundTrip: TestSerialize on one selector text.        *)
(***************************************************************************)

\* Longest selector text of SpecRoundTrip, in bytes.
MaxText == 4

\* 'p', 'P', '.', '#', ' ', '>', ',', '*', ':' and '\'
TextBytes == {112, 80, 46, 35, 32, 62, 44, 42, 58, 92}

NoParse == [sel |-> nilSel, err |-> nilError]

InitRoundTrip ==
    /\ doc = NoDoc
    /\ \E len \in 0..MaxText : \E text \in [1..len -> TextBytes] : query = [text |-> text]
    /\ result = [done |-> FALSE, first |-> NoParse, serialized |-> <<>>, second |-> NoParse]

\* s, err := ParseGroupWithPseudoElements(selector)
compile(selector) ==
    ParseGroupWithPseudoElements(selector, parseSelectorGroup(parser(selector, TRUE)))

\* s2, err := ParseGroupWithPseudoElements(serialized), and what the test looks at
compileAgain(first, serialized) ==
    [done |-> TRUE, first |-> first, serialized |-> serialized, second |-> compile(serialized)]

\* the body of the loop once the first parse returned first: the test stops
\* on an error, else serialized := s.String() is parsed again
testSerialize(first) ==
    IF first.err # nilError
    THEN [done |-> TRUE, first |-> first, serialized |-> <<>>, second |-> NoParse]
    ELSE compileAgain(first, GroupString(first.sel))

DoSerialize ==
    /\ ~result.done
    /\ result' = testSerialize(compile(query.text))
    /\ UNCHANGED <<doc, query>>

NextRoundTrip == DoSerialize

SpecRoundTrip == InitRoundTrip /\ [][NextRoundTrip]_vars

\* The identifier a simple selector holds: its tag name, class or id.
IdentifierOf(simple) ==
    CASE simple.kind = "tagSelector"   -> IF simple.tag # NoAtom THEN simple.tag ELSE simple.tagS
      [] simple.kind = "classSelector" -> simple.class
      [] simple.kind = "idSelector"    -> simple.id

\* The identifiers of a selector, pseudo-element names included.
IdentifiersIn(sel) ==
    {IdentifierOf(simple) : simple \in Range(SimplesIn(sel))}
        \cup {c.pseudoElement : c \in Range(CompoundsIn(sel))}

\* An identifier that cannot be written without an escape: it holds a byte
\* that is no name character (the escaping exclusions of section 4.5).
NeedsEscape(group) ==
    \E k \in 1..Len(group) : \E id \in IdentifiersIn(group[k]) :
        \E i \in 1..Len(id) : ~nameChar(id[i])

RECURSIVE PseudoElement(_)

\* the pseudo-element of the right side; "" when there is no right side
combinedSelectorPseudoElement(c) ==
    IF c.second = nilSel THEN <<>> ELSE PseudoElement(c.second)

compoundSelectorPseudoElement(c) == c.pseudoElement

\* sel.PseudoElement(), dispatched on the dynamic type of sel
PseudoElement(sel) ==
    CASE sel.kind = "tagSelector"        -> <<>>
      [] sel.kind = "classSelector"      -> <<>>
      [] sel.kind = "idSelector"         -> <<>>
      [] sel.kind = "attrSelector"       -> <<>>
      [] sel.kind = "neverMatchSelector" -> <<>>
      [] sel.kind = "compoundSelector"   -> compoundSelectorPseudoElement(sel)
      [] sel.kind = "combinedSelector"   -> combinedSelectorPseudoElement(sel)

(***************************************************************************)
(* Specification SpecPseudoElement: one selector, a simple selector, a     *)
(* compound, a chain of compounds, or a compound under the combinator 0    *)
(* with no right side; PseudoElement() is called on it.                    *)
(***************************************************************************)

\* Most compounds in a chain of SpecPseudoElement.
MaxPseudoChain == 3

\* the member lists of the compounds: none, and div
PseudoMembers == {<<>>, <<newTagSelector(TagDiv)>>}

InitPseudoElement ==
    /\ doc = NoDoc
    /\ \/ \E simple \in SimpleSels : query = [sel |-> simple]
       \/ \E m \in 1..MaxPseudoChain :
            \E members \in [1..m -> PseudoMembers], pe \in [1..m -> PseudoElements],
               combs \in [1..(m - 1) -> Combinators], bare \in BOOLEAN :
                /\ bare => m = 1
                /\ query = [sel |->
                      IF bare THEN combinedSelector(compoundSelector(members[1], pe[1]), 0, nilSel)
                      ELSE Chain([j \in 1..m |-> compoundSelector(members[j], pe[j])], combs, m)]
    /\ result = [done |-> FALSE, pseudoElement |-> <<>>]

DoPseudoElement ==
    /\ ~result.done
    /\ result' = [done |-> TRUE, pseudoElement |-> PseudoElement(query.sel)]
    /\ UNCHANGED <<doc, query>>

NextPseudoElement == DoPseudoElement

SpecPseudoElement == InitPseudoElement /\ [][NextPseudoElement]_vars

RECURSIVE RightmostCompound(_)
\* the last compound of a chain, read left to right; a selector that is no
\* chain is its own last member
RightmostCompound(sel) ==
    IF sel.kind # "combinedSelector" THEN sel
    ELSE IF sel.second = nilSel THEN RightmostCompound(sel.first)
    ELSE RightmostCompound(sel.second)

\* the pseudo-element that sel carries itself: a compound's own, else none
OwnPseudoElement(sel) == IF sel.kind = "compoundSelector" THEN sel.pseudoElement ELSE <<>>

====
